---- MODULE Spec2Model ----
(***************************************************************************)
(* State-machine model of the scanner web application:                     *)
(*   src/scanner_manager.py      backend selection (ScannerManager)        *)
(*   src/backends/*.py           SANE / TWAIN backends, eSCL client        *)
(*   src/main.py                 device registry, job table, handlers,     *)
(*                               detection threads and scan threads        *)
(* Python threads interleave between statements, so every statement that   *)
(* reads or writes a module-level global (available_scanners,              *)
(* scanner_detection_status, scan_status) is a step of its own.            *)
(*                                                                         *)
(* src/scanner_manager.py carries two stray copies of line 9 (lines 10 and *)
(* 13); the second one stands directly under the `if` of line 12, so the   *)
(* file as committed is an IndentationError: `from scanner_manager import  *)
(* ScannerManager` (main.py 12) raises on every platform and nothing of    *)
(* main.py runs.  The model has that outcome as an initial state in which  *)
(* no step is possible (stray = TRUE), and beside it the behaviour of the  *)
(* same file with lines 10 and 13 taken out (stray = FALSE), on which      *)
(* everything that is said about a running process rests.                  *)
(***************************************************************************)
EXTENDS Integers, Sequences, FiniteSets, TLC

\* ------------------------------------------------------------------ bounds
\* Number of devices the hardware can expose (raw ids 1..MaxDevices).
MaxDevices == 2
\* Detection threads: thread 1 is the startup thread, the others are started
\* by refresh_scanners.
MaxRefresh == 2
\* Scan submissions (start_scan / start_network_scan requests).
MaxJobs == 2
\* Detection threads started, submissions made and GET /api/scanners requests
\* being served, taken together.
MaxThreads == 3
\* GET /api/scanners requests served at the same time.
MaxReaders == 1

\* Number of network (eSCL) jobs callers submit in one run; the other
\* submissions are local jobs or are refused.
MaxNetworkJobs == 1

\* Python's None where the value is otherwise a string or a number, and
\* where it is otherwise a sequence (a path, a URL, a list).
None == "None"
NoValue == <<>>
Threads == 1..MaxRefresh
Slots == 1..MaxJobs
Readers == 1..MaxReaders

\* ------------------------------------------------------------- text values
\* Strings that the code inspects are sequences of one-character strings.
SLASH == "/"
ESCL == <<"/", "e", "S", "C", "L">>
SCANJOBS == <<"/", "S", "c", "a", "n", "J", "o", "b", "s">>
NEXTDOCUMENT == <<"/", "N", "e", "x", "t", "D", "o", "c", "u", "m", "e", "n", "t">>

\* str.endswith(suffix)
EndsWith(s, suffix) ==
    /\ Len(s) >= Len(suffix)
    /\ SubSeq(s, Len(s) - Len(suffix) + 1, Len(s)) = suffix

\* str.rstrip("/")
RECURSIVE RStrip(_)
RStrip(s) ==
    IF Len(s) > 0 /\ s[Len(s)] = SLASH THEN RStrip(SubSeq(s, 1, Len(s) - 1)) ELSE s

\* ------------------------------------------------------- backend selection
Platforms == {"linux", "darwin", "windows", "freebsd"}

\* Whether scanner_manager.py holds its stray lines 10 and 13: TRUE is the
\* file as committed, FALSE the file with the two lines taken out.
StrayLines == BOOLEAN

\* `from scanner_manager import ScannerManager` followed by ScannerManager():
\* "IndentationError" when the module does not compile; otherwise the value
\* __init__ gives self.backend, or "raised" when __init__ lets the driver's
\* exception escape.  initRaises says whether the platform's local driver
\* (sane.init / twain.SourceManager) raises.
SelectBackend(os, render, initRaises, stray) ==
    IF stray THEN "IndentationError"
    ELSE IF render THEN "escl"
    ELSE IF os \in {"linux", "darwin"}
         THEN (IF initRaises THEN "escl" ELSE "sane")
    ELSE IF os = "windows"
         THEN (IF initRaises THEN "raised" ELSE "twain")
    ELSE "escl"

\* Whether a driver constructor (lines 18, 24) is reached.
InitializesDriver(os, render, stray) ==
    ~stray /\ ~render /\ os \in {"linux", "darwin", "windows"}

\* What the hardware can expose: the contiguous runs of the devices
\* dev1..dev<MaxDevices>, by device name.
DeviceName(n) == "dev" \o ToString(n)
RECURSIVE Run(_, _)
Run(a, b) == IF a > b THEN <<>> ELSE <<DeviceName(a)>> \o Run(a + 1, b)
HwLists == {Run(a, b) : a \in 1..MaxDevices, b \in 0..MaxDevices}

\* An entry of an enumeration is a tuple (or list) of items or a string;
\* `items` holds str() of the tuple's items, or the string alone.
TupleEntry(items) == [form |-> "tuple", items |-> items]
StrEntry(text) == [form |-> "str", items |-> <<text>>]

\* sane.get_devices() reports (name, vendor, model, type) per device: dev1
\* comes with a vendor, the others without.
SaneDevice(dev) ==
    TupleEntry(<<dev, IF dev = DeviceName(1) THEN "ACME" ELSE "",
                 "Scan [" \o dev \o "]", "flatbed scanner">>)

\* SourceManager.source_list reports the source names.
TwainSource(dev) == StrEntry(dev)

\* What the driver of backend b enumerates when the devices `hw` are there.
Enumerated(b, hw) ==
    [k \in 1..Len(hw) |-> IF b = "sane" THEN SaneDevice(hw[k]) ELSE TwainSource(hw[k])]

\* ScannerManager.list_scanners: the possible outcomes of one call, as
\* [raised, iterable, value].  The network-only selector returns []; a driver
\* backend returns what the driver enumerates, raises, or hands back a value
\* that cannot be iterated (None).
ListScannersOutcomes(b) ==
    IF b = "escl" THEN {[raised |-> FALSE, iterable |-> TRUE, value |-> <<>>]}
    ELSE {[raised |-> FALSE, iterable |-> TRUE, value |-> Enumerated(b, hw)] : hw \in HwLists}
         \cup {[raised |-> FALSE, iterable |-> FALSE, value |-> NoValue],
               [raised |-> TRUE, iterable |-> FALSE, value |-> NoValue]}

\* ------------------------------------------------------------------- state
VARIABLES
    is_render,                \* sm.is_render: os.getenv("RENDER") == "true"
    init_raised,              \* whether a local driver was initialized and raised
    sm_backend,               \* sm.backend: "escl", "sane", "twain"; "raised" and
                              \* "IndentationError": sm was never built
    available_scanners,       \* main.py global: the device registry (list of dicts)
    scanner_detection_status, \* main.py global
    last_scan_detection,      \* main.py global: None or a timestamp
    detect,                   \* per detection thread: position and locals of auto_detect_scanners
    scan_status,              \* main.py global: the job table, scan_id -> record
    req,                      \* per submission: position and locals of the request handler
    job,                      \* per submission: position and locals of the scan thread
    files,                    \* file system below scans/: per destination path
    http,                     \* per scan thread: the HTTP requests scan_from_escl issued
    reader                    \* per GET /api/scanners request: position and locals

vars == <<is_render, init_raised, sm_backend, available_scanners,
          scanner_detection_status, last_scan_detection, detect, scan_status,
          req, job, files, http, reader>>

envVars == <<is_render, init_raised, sm_backend>>

\* The process is serving only when line 12 of main.py imported the manager's
\* module and line 40 built the manager.
Running == sm_backend \notin {"raised", "IndentationError"}

\* ---------------------------------------------------------- device registry
\* Text that the loop takes apart is a string; SubSeq(s, k, k) is its k-th
\* character.
\* c in s
HasChar(s, c) == \E k \in 1..Len(s) : SubSeq(s, k, k) = c

\* s.split(c)[-1]: what follows the last c, all of s when it holds none.
AfterLast(s, c) ==
    IF ~HasChar(s, c) THEN s
    ELSE LET k == CHOOSE k \in 1..Len(s) :
                      /\ SubSeq(s, k, k) = c
                      /\ \A j \in (k + 1)..Len(s) : SubSeq(s, j, j) # c
         IN  SubSeq(s, k + 1, Len(s))

\* s.split(c)[0]: what precedes the first c, all of s when it holds none.
BeforeFirst(s, c) ==
    IF ~HasChar(s, c) THEN s
    ELSE LET k == CHOOSE k \in 1..Len(s) :
                      /\ SubSeq(s, k, k) = c
                      /\ \A j \in 1..(k - 1) : SubSeq(s, j, j) # c
         IN  SubSeq(s, 1, k - 1)

\* str.strip(), the blank being the only white space of these texts.
RECURSIVE Strip(_)
Strip(s) ==
    IF Len(s) > 0 /\ SubSeq(s, 1, 1) = " " THEN Strip(SubSeq(s, 2, Len(s)))
    ELSE IF Len(s) > 0 /\ SubSeq(s, Len(s), Len(s)) = " "
         THEN Strip(SubSeq(s, 1, Len(s) - 1))
    ELSE s

\* Lines 95 and 114: the branch the loop takes for an entry.
IsSequenceEntry(scanner) == scanner.form = "tuple" /\ Len(scanner.items) >= 1

\* str() of an entry that is neither a non-empty tuple nor a string
\* (lines 118-119): of these only the empty tuple occurs.
StrOf(scanner) == IF scanner.form = "tuple" THEN "()" ELSE scanner.items[1]

\* Lines 97, 116, 119: scanner_device_id.
ScannerDeviceId(scanner) ==
    IF IsSequenceEntry(scanner) THEN scanner.items[1] ELSE StrOf(scanner)

\* Lines 91, 99-100: scanner_manufacturer.
ScannerManufacturer(scanner) ==
    IF IsSequenceEntry(scanner) /\ Len(scanner.items) >= 3 THEN scanner.items[2] ELSE ""

\* Lines 92, 99-101: scanner_model.
ScannerModel(scanner) ==
    IF IsSequenceEntry(scanner) /\ Len(scanner.items) >= 3 THEN scanner.items[3] ELSE ""

\* Lines 106-119: scanner_name.
ScannerName(scanner) ==
    LET scanner_device_id == ScannerDeviceId(scanner)
        scanner_manufacturer == ScannerManufacturer(scanner)
        scanner_model == ScannerModel(scanner)
    IN  IF ~IsSequenceEntry(scanner) THEN StrOf(scanner)
        ELSE IF scanner_model # "" /\ scanner_manufacturer # ""
             THEN scanner_manufacturer \o " " \o scanner_model
        ELSE IF scanner_model # "" THEN scanner_model
        ELSE AfterLast(scanner_device_id, ":")

\* Lines 122-125: display_name.
DisplayName(scanner_name) ==
    IF HasChar(scanner_name, "[") /\ HasChar(scanner_name, "]")
    THEN Strip(BeforeFirst(scanner_name, "["))
    ELSE scanner_name

\* The dict built for one enumerated entry (main.py 127-139).
ScannerInfo(i, scanner) ==
    [index |-> i, name |-> DisplayName(ScannerName(scanner)),
     device_id |-> ScannerDeviceId(scanner), last_used |-> None]

\* The complete list a detection pass builds from `scanners` (loop 86-161).
RECURSIVE Processed(_, _)
Processed(scanners, n) ==
    IF n = 0 THEN <<>>
    ELSE Append(Processed(scanners, n - 1), ScannerInfo(n - 1, scanners[n]))

\* pre, alone and enum_failed are history: the registry as the pass found it,
\* whether nothing else wrote the registry since, and whether both
\* enumeration attempts raised.
IdleThread == [pc |-> "idle", scanners |-> NoValue, iterable |-> TRUE, i |-> 0,
               pre |-> <<>>, alone |-> TRUE, enum_failed |-> FALSE]

\* start_scanner_detection (190-201) / the thread body before line 57.
StartedThread == [IdleThread EXCEPT !.pc = "begin"]

\* A detection thread that returned; its locals are gone.
DoneThread == [IdleThread EXCEPT !.pc = "done"]

\* The detection threads after `writer` (a thread, or 0 for a request
\* handler) wrote the registry: the passes under way are no longer alone.
Disturb(d, writer) ==
    [u \in Threads |->
        IF u # writer /\ d[u].pc \notin {"idle", "done"}
        THEN [d[u] EXCEPT !.alone = FALSE, !.pre = <<>>]
        ELSE d[u]]

\* A GET /api/scanners request that is not being served.  `live` says that
\* the list object taken at line 217 is still the one the global names;
\* `scanners` holds that object's content once the global was rebound, and
\* the serialized list once the answer is built.
IdleReader == [pc |-> "idle", live |-> FALSE, scanners |-> NoValue,
               detection_status |-> None, last_detection |-> None, total_count |-> 0]

\* The requests after `available_scanners = []` (lines 84, 187) gave the
\* global a new list object: a request that holds the old object keeps the
\* old object's content, which nothing appends to any more.
Rebound(rd) ==
    [r \in Readers |->
        IF rd[r].live
        THEN [rd[r] EXCEPT !.live = FALSE, !.scanners = available_scanners]
        ELSE rd[r]]

\* How many detection threads were started, submissions were made and
\* GET /api/scanners requests are being served.
Started ==
    Cardinality({t \in Threads : detect[t].pc # "idle"})
    + Cardinality({q \in Slots : req[q].pc # "idle"})
    + Cardinality({r \in Readers : reader[r].pc # "idle"})

\* auto_detect_scanners line 57.  `pre` remembers the registry as the pass
\* found it.
Detect_Begin(t) ==
    /\ Running
    /\ detect[t].pc = "begin"
    /\ scanner_detection_status' = "detecting"
    /\ detect' = [detect EXCEPT ![t].pc = "list", ![t].pre = available_scanners,
                                ![t].alone = TRUE]
    /\ UNCHANGED <<envVars, reader, available_scanners, last_scan_detection, scan_status,
                   req, job, files, http>>

\* Lines 65-72: the first sm.list_scanners() call.
Detect_List(t) ==
    /\ Running
    /\ detect[t].pc = "list"
    /\ \E o \in ListScannersOutcomes(sm_backend) :
          detect' = IF o.raised
                    THEN [detect EXCEPT ![t].pc = "retry"]
                    ELSE [detect EXCEPT ![t].pc = "reset", ![t].scanners = o.value,
                                        ![t].iterable = o.iterable]
    /\ UNCHANGED <<envVars, reader, available_scanners, scanner_detection_status,
                   last_scan_detection, scan_status, req, job, files, http>>

\* Lines 73-82: the retry; a second failure is swallowed as scanners = [].
Detect_Retry(t) ==
    /\ Running
    /\ detect[t].pc = "retry"
    /\ \E o \in ListScannersOutcomes(sm_backend) :
          detect' = IF o.raised
                    THEN [detect EXCEPT ![t].pc = "reset", ![t].scanners = <<>>,
                                        ![t].enum_failed = TRUE]
                    ELSE [detect EXCEPT ![t].pc = "reset", ![t].scanners = o.value,
                                        ![t].iterable = o.iterable]
    /\ UNCHANGED <<envVars, reader, available_scanners, scanner_detection_status,
                   last_scan_detection, scan_status, req, job, files, http>>

\* Line 84: available_scanners = [].
Detect_Reset(t) ==
    /\ Running
    /\ detect[t].pc = "reset"
    /\ available_scanners' = <<>>
    /\ reader' = Rebound(reader)
    /\ detect' = Disturb([detect EXCEPT ![t].pc = "loop", ![t].i = 0], t)
    /\ UNCHANGED <<envVars, scanner_detection_status, last_scan_detection,
                   scan_status, req, job, files, http>>

\* Line 86 on a value that cannot be iterated: TypeError, caught at line 183.
Detect_Raise(t) ==
    /\ Running
    /\ detect[t].pc = "loop"
    /\ ~detect[t].iterable
    /\ detect' = [detect EXCEPT ![t].pc = "except"]
    /\ UNCHANGED <<envVars, reader, available_scanners, scanner_detection_status,
                   last_scan_detection, scan_status, req, job, files, http>>

\* One iteration of the loop 86-166: build the entry's dict and append it to
\* whatever list the global names at that moment (line 161).
Detect_Append(t) ==
    /\ Running
    /\ detect[t].pc = "loop"
    /\ detect[t].iterable
    /\ detect[t].i < Len(detect[t].scanners)
    /\ available_scanners' =
          Append(available_scanners,
                 ScannerInfo(detect[t].i, detect[t].scanners[detect[t].i + 1]))
    /\ detect' = Disturb([detect EXCEPT ![t].i = @ + 1], t)
    /\ UNCHANGED <<envVars, reader, scanner_detection_status, last_scan_detection,
                   scan_status, req, job, files, http>>

\* Line 168 after the loop ran out.
Detect_Completed(t) ==
    /\ Running
    /\ detect[t].pc = "loop"
    /\ detect[t].iterable
    /\ detect[t].i = Len(detect[t].scanners)
    /\ scanner_detection_status' = "completed"
    /\ detect' = [detect EXCEPT ![t].pc = "stamp"]
    /\ UNCHANGED <<envVars, reader, available_scanners, last_scan_detection,
                   scan_status, req, job, files, http>>

\* Line 169; 171-181 only read the registry to print it.
Detect_Stamp(t) ==
    /\ Running
    /\ detect[t].pc = "stamp"
    /\ last_scan_detection' = "ts"
    /\ detect' = [detect EXCEPT ![t] = DoneThread]
    /\ UNCHANGED <<envVars, reader, available_scanners, scanner_detection_status,
                   scan_status, req, job, files, http>>

\* Line 184.
Detect_ExceptStatus(t) ==
    /\ Running
    /\ detect[t].pc = "except"
    /\ scanner_detection_status' = "error"
    /\ detect' = [detect EXCEPT ![t].pc = "except_reset"]
    /\ UNCHANGED <<envVars, reader, available_scanners, last_scan_detection, scan_status,
                   req, job, files, http>>

\* Line 187.
Detect_ExceptReset(t) ==
    /\ Running
    /\ detect[t].pc = "except_reset"
    /\ available_scanners' = <<>>
    /\ reader' = Rebound(reader)
    /\ detect' = Disturb([detect EXCEPT ![t] = DoneThread], t)
    /\ UNCHANGED <<envVars, scanner_detection_status, last_scan_detection,
                   scan_status, req, job, files, http>>

\* POST /api/scanners/refresh (224-243): set the status and start a thread
\* that runs auto_detect_scanners.
refresh_scanners ==
    /\ Running
    /\ Started < MaxThreads
    /\ \E t \in Threads :
          /\ detect[t].pc = "idle"
          /\ \A u \in Threads : u < t => detect[u].pc # "idle"
          /\ detect' = [detect EXCEPT ![t] = StartedThread]
    /\ scanner_detection_status' = "detecting"
    /\ UNCHANGED <<envVars, reader, available_scanners, last_scan_detection, scan_status,
                   req, job, files, http>>

\* GET /api/scanners (210-221).  The handler builds its answer without a
\* lock, one read of a global after the other.
\* Line 217: 'scanners' takes the list object the global names now.
GetScanners_Scanners(r) ==
    /\ Running
    /\ Started < MaxThreads
    /\ reader[r].pc = "idle"
    /\ reader' = [reader EXCEPT ![r] = [IdleReader EXCEPT !.pc = "status", !.live = TRUE]]
    /\ UNCHANGED <<envVars, available_scanners, scanner_detection_status,
                   last_scan_detection, detect, scan_status, req, job, files, http>>

\* Line 218.
GetScanners_Status(r) ==
    /\ Running
    /\ reader[r].pc = "status"
    /\ reader' = [reader EXCEPT ![r].pc = "last",
                                ![r].detection_status = scanner_detection_status]
    /\ UNCHANGED <<envVars, available_scanners, scanner_detection_status,
                   last_scan_detection, detect, scan_status, req, job, files, http>>

\* Line 219.
GetScanners_Last(r) ==
    /\ Running
    /\ reader[r].pc = "last"
    /\ reader' = [reader EXCEPT ![r].pc = "count",
                                ![r].last_detection = last_scan_detection]
    /\ UNCHANGED <<envVars, available_scanners, scanner_detection_status,
                   last_scan_detection, detect, scan_status, req, job, files, http>>

\* Line 220: len() of the list the global names now.
GetScanners_Count(r) ==
    /\ Running
    /\ reader[r].pc = "count"
    /\ reader' = [reader EXCEPT ![r].pc = "jsonify",
                                ![r].total_count = Len(available_scanners)]
    /\ UNCHANGED <<envVars, available_scanners, scanner_detection_status,
                   last_scan_detection, detect, scan_status, req, job, files, http>>

\* The content of the list object request r took at line 217.
Content(r) == IF reader[r].live THEN available_scanners ELSE reader[r].scanners

\* Line 215: jsonify serializes the dict, and with it the list object of
\* line 217 as it is by now.
GetScanners_Jsonify(r) ==
    /\ Running
    /\ reader[r].pc = "jsonify"
    /\ reader' = [reader EXCEPT ![r].pc = "answered", ![r].live = FALSE,
                                ![r].scanners = Content(r)]
    /\ UNCHANGED <<envVars, available_scanners, scanner_detection_status,
                   last_scan_detection, detect, scan_status, req, job, files, http>>

\* The answer request r hands to its caller.
Answer(r) ==
    [success |-> TRUE,
     scanners |-> reader[r].scanners,
     detection_status |-> reader[r].detection_status,
     last_detection |-> reader[r].last_detection,
     total_count |-> reader[r].total_count]

\* The answer is sent and the request is over.
GetScanners_Return(r) ==
    /\ Running
    /\ reader[r].pc = "answered"
    /\ reader' = [reader EXCEPT ![r] = IdleReader]
    /\ UNCHANGED <<envVars, available_scanners, scanner_detection_status,
                   last_scan_detection, detect, scan_status, req, job, files, http>>

\* A step of a GET /api/scanners handler that is past its first read.
ReaderStep(r) ==
    \/ GetScanners_Status(r)
    \/ GetScanners_Last(r)
    \/ GetScanners_Count(r)
    \/ GetScanners_Jsonify(r)
    \/ GetScanners_Return(r)

\* A request arrives and runs line 217, or a handler under way runs on.
get_scanners(r) ==
    \/ GetScanners_Scanners(r)
    \/ ReaderStep(r)

DetectStep(t) ==
    \/ Detect_Begin(t)
    \/ Detect_List(t)
    \/ Detect_Retry(t)
    \/ Detect_Reset(t)
    \/ Detect_Raise(t)
    \/ Detect_Append(t)
    \/ Detect_Completed(t)
    \/ Detect_Stamp(t)
    \/ Detect_ExceptStatus(t)
    \/ Detect_ExceptReset(t)

\* ---------------------------------------------------------------- job table
\* An identifier source that hands out the same identifier every time.
FixedScanId(q) == "uuid" \o ToString(1)

\* uuid.uuid4() (355, 410): a fresh identifier per submission.
NewScanId(q) == "uuid" \o ToString(q)

\* os.path.join(app.config['UPLOAD_FOLDER'], filename) (358-359, 412-413):
\* the file name embeds the scan id, so it is unique per submission.
Filepath(scan_id) == <<"scans", "scan_" \o scan_id>>

\* os.path.basename(path)
Basename(path) == path[Len(path)]

\* The record start_scan creates (362-369) for the scanner named
\* selected_name.
LocalRecord(selected_name) ==
    [status |-> "scanning", progress |-> 0, filename |-> None, error |-> None,
     scanner_name |-> selected_name]

\* The record start_network_scan creates (416-421).
NetworkRecord ==
    [status |-> "scanning", progress |-> 0, filename |-> None, error |-> None]

\* `selected` is the name in the dict line 352 picked, kept until the record
\* is made of it.  `device` is history: the device that stood at the submitted
\* index when line 345 accepted it.
IdleReq == [pc |-> "idle", kind |-> None, scanner_index |-> None, scan_id |-> None,
            selected |-> None, device |-> None]

IdleJob == [pc |-> "none", kind |-> None, scan_id |-> None, scanner_index |-> None,
            escl_url |-> NoValue, filepath |-> NoValue, result |-> NoValue,
            exc |-> None, job_url |-> NoValue, acquired |-> None]

\* Submissions take the request slots in order.
NextSlot(q) ==
    /\ Started < MaxThreads
    /\ req[q].pc = "idle"
    /\ \A p \in Slots : p < q => req[p].pc # "idle"

\* Values a caller may send as scanner_index.
IndexInputs == -1..MaxDevices

\* The device that stands at a list index of the registry, None when the
\* registry has no such entry.
DeviceAt(scanner_index) ==
    IF scanner_index \in 0..(Len(available_scanners) - 1)
    THEN available_scanners[scanner_index + 1].device_id
    ELSE None

\* A check that only refuses negative indices.
RejectsOnlyNegative(scanner_index, count) == scanner_index < 0

\* start_scan 345: the test that rejects a scanner index.
InvalidIndex(scanner_index, count) == scanner_index >= count \/ scanner_index < 0

\* start_scan 334-349: read the request and validate the index against the
\* registry as it is now.
\* The answers are 400 'Scanner index is required' (pc "resp400") and 400
\* 'Invalid scanner index' (pc "resp400_invalid").
StartScan_Validate(q) ==
    /\ Running
    /\ NextSlot(q)
    /\ \E given \in BOOLEAN, idx \in IndexInputs :
          req' = [req EXCEPT ![q] =
                    IF ~given
                    THEN [IdleReq EXCEPT !.pc = "resp400", !.kind = "local"]
                    ELSE IF InvalidIndex(idx, Len(available_scanners))
                    THEN [IdleReq EXCEPT !.pc = "resp400_invalid", !.kind = "local"]
                    ELSE [IdleReq EXCEPT !.pc = "validated", !.kind = "local",
                                         !.scanner_index = idx,
                                         !.device = DeviceAt(idx)]]
    /\ UNCHANGED <<envVars, reader, available_scanners, scanner_detection_status,
                   last_scan_detection, detect, scan_status, job, files, http>>

\* start_scan 352: index the registry again for selected_scanner (IndexError
\* when it shrank in between, answered 500 by the handler at 388).
StartScan_Select(q) ==
    /\ Running
    /\ req[q].pc = "validated"
    /\ req' = IF req[q].scanner_index < Len(available_scanners)
              THEN [req EXCEPT ![q].pc = "selected",
                               ![q].selected =
                                   available_scanners[req[q].scanner_index + 1].name]
              ELSE [req EXCEPT ![q].pc = "resp500"]
    /\ UNCHANGED <<envVars, reader, available_scanners, scanner_detection_status,
                   last_scan_detection, detect, scan_status, job, files, http>>

\* start_scan 355-369: draw the job id and create the job record from the
\* dict line 352 picked, whatever the registry holds by now.
StartScan_Record(q) ==
    /\ Running
    /\ req[q].pc = "selected"
    /\ scan_status' = (NewScanId(q) :> LocalRecord(req[q].selected)) @@ scan_status
    /\ req' = [req EXCEPT ![q].pc = "recorded", ![q].scan_id = NewScanId(q),
                          ![q].selected = None]
    /\ UNCHANGED <<envVars, reader, available_scanners, scanner_detection_status,
                   last_scan_detection, detect, job, files, http>>

\* start_scan 371-386: index the registry a third time to stamp last_used
\* (IndexError -> 500, the record stays), then start the scan thread.
StartScan_Launch(q) ==
    /\ Running
    /\ req[q].pc = "recorded"
    /\ IF req[q].scanner_index < Len(available_scanners)
       THEN /\ available_scanners' =
                  [available_scanners EXCEPT ![req[q].scanner_index + 1].last_used = "ts"]
            /\ job' = [job EXCEPT ![q] =
                         [IdleJob EXCEPT !.pc = "start", !.kind = "local",
                                         !.scan_id = req[q].scan_id,
                                         !.scanner_index = req[q].scanner_index,
                                         !.filepath = Filepath(req[q].scan_id)]]
            /\ req' = [req EXCEPT ![q].pc = "resp200"]
            /\ detect' = Disturb(detect, 0)
       ELSE /\ req' = [req EXCEPT ![q].pc = "resp500"]
            /\ UNCHANGED <<available_scanners, job, detect>>
    /\ UNCHANGED <<envVars, reader, scanner_detection_status, last_scan_detection,
                   scan_status, files, http>>

\* The network jobs submitted so far.
NetworkJobs == Cardinality({q \in Slots : job[q].kind = "network"})

\* Endpoint URLs a caller may send: h, h/, h/eSCL, h/eSCL/ and nothing.
HOST == <<"h">>
UrlInputs == {<<>>, HOST, HOST \o <<SLASH>>, HOST \o ESCL, HOST \o ESCL \o <<SLASH>>}

\* start_network_scan 395-434: no shared state is read between the check of
\* the URL and the start of the thread, so the handler is one step.
start_network_scan(q) ==
    /\ Running
    /\ NextSlot(q)
    /\ \E url \in UrlInputs :
          IF url = <<>>
          THEN /\ req' = [req EXCEPT ![q] =
                            [IdleReq EXCEPT !.pc = "resp400", !.kind = "network"]]
               /\ UNCHANGED <<scan_status, job>>
          ELSE /\ NetworkJobs < MaxNetworkJobs
               /\ scan_status' = (NewScanId(q) :> NetworkRecord) @@ scan_status
               /\ job' = [job EXCEPT ![q] =
                            [IdleJob EXCEPT !.pc = "start", !.kind = "network",
                                            !.scan_id = NewScanId(q), !.escl_url = url,
                                            !.filepath = Filepath(NewScanId(q))]]
               /\ req' = [req EXCEPT ![q] =
                            [IdleReq EXCEPT !.pc = "resp200", !.kind = "network",
                                            !.scan_id = NewScanId(q)]]
    /\ UNCHANGED <<envVars, reader, available_scanners, scanner_detection_status,
                   last_scan_detection, detect, files, http>>

\* GET /api/scan/status/<scan_id> (443-455): what a caller is handed now.
get_scan_status(scan_id) ==
    IF scan_id \notin DOMAIN scan_status
    THEN [success |-> FALSE, code |-> 404, scan_status |-> None]
    ELSE [success |-> TRUE, code |-> 200, scan_status |-> scan_status[scan_id]]

\* ------------------------------------------------------------------ backends
\* A backend whose scan hands back nothing.
ReturnsNothing(output_file) == NoValue

\* `return output_file` (sane_backend.py 20, twain_backend.py 15,
\* escl_backend.py 53): a backend hands back the path it was given.
Returned(output_file) == output_file

Raise(exc, file) ==
    [raised |-> TRUE, exc |-> exc, result |-> NoValue, file |-> file, device |-> None]

\* SaneBackend.scan: enumerate again, index the fresh enumeration with the
\* scanner id, open the device by the entry's first item, scan, save.  `file` is what the call leaves
\* at output_file: nothing, a file that image.save did not finish, or the image.
SaneScan(scanner_id, output_file) ==
    {Raise("sane error", "untouched")}
    \cup UNION {
        IF devices = <<>> THEN {Raise("No scanners found", "untouched")}
        ELSE IF scanner_id >= Len(devices) THEN {Raise("IndexError", "untouched")}
        ELSE {Raise("sane error", "untouched"),
              Raise("save failed", "partial"),
              [raised |-> FALSE, exc |-> None, result |-> Returned(output_file),
               file |-> "complete",
               device |-> SaneDevice(devices[scanner_id + 1]).items[1]]}
        : devices \in HwLists}

\* TwainBackend.scan: the scanner id is not used; the source manager opens
\* its own choice of source.
TwainScan(scanner_id, output_file) ==
    {Raise("twain error", "untouched"),
     Raise("save failed", "partial")}
    \cup {[raised |-> FALSE, exc |-> None, result |-> Returned(output_file),
           file |-> "complete", device |-> DeviceName(n)] : n \in 1..MaxDevices}

\* ScannerManager.scan (scanner_manager.py 33-36).
ScanOutcomes(b, scanner_id, output_file) ==
    IF b = "escl" THEN {Raise("Use scan_network_escl() on Render", "untouched")}
    ELSE IF b = "sane" THEN SaneScan(scanner_id, output_file)
    ELSE TwainScan(scanner_id, output_file)

\* The file system after a call left `effect` at `path`.
FileAfter(path, effect) ==
    IF effect = "untouched" THEN files ELSE (path :> effect) @@ files

\* scan_from_escl 8-9: make the URL end in /eSCL.
EsclEndpoint(url) ==
    IF ~EndsWith(url, ESCL) THEN RStrip(url) \o ESCL ELSE url

\* What the device may answer to the POST:
\*   "http_error"   no answer, a timeout, or a 4xx/5xx status;
\*   "no_location"  a 2xx status without a Location header;
\*   "created"      a 2xx status with a Location header;
\*   "not_2xx"      a status that is neither 2xx nor 4xx/5xx and that requests
\*                  does not follow as a redirect (300, 304, 305, 306), with a
\*                  Location header.
PostOutcomes == {"http_error", "no_location", "created", "not_2xx"}

\* Whether the answer carries a Location header.
HasLocation(o) == o \in {"created", "not_2xx"}

\* A client that reads the Location header leniently: only an HTTP-level
\* failure raises.
PostRaisesLenient(o) == o = "http_error"

\* Whether lines 40-42 raise on that answer: requests.post raises without an
\* answer, raise_for_status raises on 4xx/5xx only, r.headers["Location"]
\* raises without the header.
PostRaises(o) == o \in {"http_error", "no_location"}

\* The Location value the device hands out.
Locations == {HOST \o ESCL \o SCANJOBS \o <<SLASH, n>> : n \in {"1"}}

\* scan_from_escl 45: f"{job_url}/NextDocument".
DocumentUrl(job_url) == job_url \o NEXTDOCUMENT

\* What the device may answer to the GET: an HTTP-level failure (no answer,
\* a timeout, a 4xx/5xx status), the image with a 2xx status, or a status that
\* is neither 2xx nor 4xx/5xx and is not followed as a redirect, with
\* whatever body comes with it.
GetOutcomes == {"http_error", "ok", "not_2xx"}

\* Whether lines 45-46 raise on that answer (requests.get, raise_for_status).
GetRaises(o) == o = "http_error"

\* How open(output_file, "wb") at line 48 may end: the file is created (or
\* cut to nothing), or the call raises.
OpenOutcomes == {"opened", "open_error"}

\* One turn of the loop 49-50: the next chunk arrives and is written, the
\* body is at its end, or the stream breaks.
ChunkOutcomes == {"chunk", "end", "stream_error"}

\* ------------------------------------------------------------- scan threads
\* A scan thread that returned: its arguments stay on record, the other
\* locals are gone.
Finished(q) ==
    [job EXCEPT ![q].pc = "finished", ![q].result = NoValue, ![q].exc = None,
                ![q].job_url = NoValue]

\* One statement of a scan thread that writes the thread's job record.
ThreadWrite(q, from, to, rec) ==
    /\ Running
    /\ job[q].pc = from
    /\ scan_status' = [scan_status EXCEPT ![job[q].scan_id] = rec]
    /\ job' = IF to = "finished" THEN Finished(q) ELSE [job EXCEPT ![q].pc = to]
    /\ UNCHANGED <<envVars, reader, available_scanners, scanner_detection_status,
                   last_scan_detection, detect, req, files, http>>

\* A statement of a scan thread that raises: control goes to the handler,
\* which reads nothing but the exception.
ThreadRaise(q, exc) ==
    [job EXCEPT ![q].pc = "err_status", ![q].exc = exc, ![q].escl_url = NoValue]

MyRecord(q) == scan_status[job[q].scan_id]

\* A handler that records the cause without marking the job failed.
MarkErrorKeepsStatus(rec) == rec

\* A handler that also takes the progress back to 0.
MarkErrorResetsProgress(rec) == [rec EXCEPT !.status = "error", !.progress = 0]

\* Lines 531 / 559.
MarkError(rec) == [rec EXCEPT !.status = "error"]

\* perform_scan 511-512.
Perform_Start(q) ==
    /\ job[q].kind = "local"
    /\ ThreadWrite(q, "start", "announce",
                   [MyRecord(q) EXCEPT !.status = "scanning", !.progress = 25])

\* perform_scan 514: the print indexes the registry with the submitted index.
Perform_Announce(q) ==
    /\ Running
    /\ job[q].kind = "local"
    /\ job[q].pc = "announce"
    /\ job' = IF job[q].scanner_index < Len(available_scanners)
              THEN [job EXCEPT ![q].pc = "progress50"]
              ELSE ThreadRaise(q, "IndexError")
    /\ UNCHANGED <<envVars, reader, available_scanners, scanner_detection_status,
                   last_scan_detection, detect, scan_status, req, files, http>>

\* perform_scan 517.
Perform_Progress50(q) ==
    /\ job[q].kind = "local"
    /\ ThreadWrite(q, "progress50", "scan", [MyRecord(q) EXCEPT !.progress = 50])

\* perform_scan 520: the blocking sm.scan call.
Perform_Scan(q) ==
    /\ Running
    /\ job[q].kind = "local"
    /\ job[q].pc = "scan"
    /\ \E o \in ScanOutcomes(sm_backend, job[q].scanner_index, job[q].filepath) :
          /\ files' = FileAfter(job[q].filepath, o.file)
          /\ job' = IF o.raised
                    THEN ThreadRaise(q, o.exc)
                    ELSE [job EXCEPT ![q].pc = "mark_completed", ![q].result = o.result,
                                      ![q].acquired = o.device]
    /\ UNCHANGED <<envVars, reader, available_scanners, scanner_detection_status,
                   last_scan_detection, detect, scan_status, req, http>>

\* perform_scan 525.
Perform_Completed(q) ==
    /\ job[q].kind = "local"
    /\ ThreadWrite(q, "mark_completed", "progress100",
                   [MyRecord(q) EXCEPT !.status = "completed"])

\* perform_scan 526.
Perform_Progress100(q) ==
    /\ job[q].kind = "local"
    /\ ThreadWrite(q, "progress100", "filename", [MyRecord(q) EXCEPT !.progress = 100])

\* Line 527 / 555: os.path.basename raises TypeError on a value that is no path.
FilenameStep(q) ==
    /\ Running
    /\ job[q].pc = "filename"
    /\ IF job[q].result = NoValue
       THEN /\ job' = ThreadRaise(q, "TypeError")
            /\ UNCHANGED scan_status
       ELSE /\ scan_status' = [scan_status EXCEPT
                                 ![job[q].scan_id].filename = Basename(job[q].result)]
            /\ job' = Finished(q)
    /\ UNCHANGED <<envVars, reader, available_scanners, scanner_detection_status,
                   last_scan_detection, detect, req, files, http>>

\* perform_scan 527.
Perform_Filename(q) == job[q].kind = "local" /\ FilenameStep(q)

\* perform_scan 531.
Perform_ErrStatus(q) ==
    /\ job[q].kind = "local"
    /\ ThreadWrite(q, "err_status", "err_detail", MarkError(MyRecord(q)))

\* perform_scan 532.
Perform_ErrDetail(q) ==
    /\ job[q].kind = "local"
    /\ ThreadWrite(q, "err_detail", "finished", [MyRecord(q) EXCEPT !.error = job[q].exc])

\* perform_network_scan 539-540 (542 only prints the URL).
NetPerform_Start(q) ==
    /\ job[q].kind = "network"
    /\ ThreadWrite(q, "start", "progress50",
                   [MyRecord(q) EXCEPT !.status = "scanning", !.progress = 25])

\* perform_network_scan 545; 548 enters scan_from_escl.
NetPerform_Progress50(q) ==
    /\ job[q].kind = "network"
    /\ ThreadWrite(q, "progress50", "escl_post", [MyRecord(q) EXCEPT !.progress = 50])

\* scan_from_escl 8-9 and 37-42: normalize the URL, POST the settings to
\* <url>/ScanJobs, check the status, read the Location header.  Every
\* exception is re-raised as RuntimeError (55-56) into perform_network_scan.
\* Nothing reads the URL after the POST, so the thread keeps it no longer.
Escl_Post(q) ==
    /\ Running
    /\ job[q].kind = "network"
    /\ job[q].pc = "escl_post"
    /\ \E o \in PostOutcomes, loc \in Locations :
          /\ http' = [http EXCEPT ![q] =
                        Append(@, [method |-> "POST",
                                   url |-> EsclEndpoint(job[q].escl_url) \o SCANJOBS,
                                   answer |-> o,
                                   location |-> IF HasLocation(o) THEN loc ELSE NoValue])]
          /\ job' = IF PostRaises(o)
                    THEN ThreadRaise(q, "eSCL scan failed: " \o o)
                    ELSE [job EXCEPT ![q].pc = "escl_get", ![q].escl_url = NoValue,
                                     ![q].job_url = IF HasLocation(o) THEN loc ELSE NoValue]
    /\ UNCHANGED <<envVars, reader, available_scanners, scanner_detection_status,
                   last_scan_detection, detect, scan_status, req, files>>

\* scan_from_escl 44-46: GET <job_url>/NextDocument and check the status.
Escl_Get(q) ==
    /\ Running
    /\ job[q].kind = "network"
    /\ job[q].pc = "escl_get"
    /\ \E o \in GetOutcomes :
          /\ http' = [http EXCEPT ![q] =
                        Append(@, [method |-> "GET",
                                   url |-> IF job[q].job_url = NoValue
                                           THEN <<"N", "o", "n", "e">> \o NEXTDOCUMENT
                                           ELSE DocumentUrl(job[q].job_url),
                                   answer |-> o])]
          /\ job' = IF GetRaises(o)
                    THEN ThreadRaise(q, "eSCL scan failed: " \o o)
                    ELSE [job EXCEPT ![q].pc = "escl_write"]
    /\ UNCHANGED <<envVars, reader, available_scanners, scanner_detection_status,
                   last_scan_detection, detect, scan_status, req, files>>

\* scan_from_escl 48: open the destination for writing.
Escl_Open(q) ==
    /\ Running
    /\ job[q].kind = "network"
    /\ job[q].pc = "escl_write"
    /\ \E o \in OpenOutcomes :
          /\ files' = FileAfter(job[q].filepath,
                                IF o = "opened" THEN "empty" ELSE "untouched")
          /\ job' = IF o = "opened"
                    THEN [job EXCEPT ![q].pc = "escl_stream"]
                    ELSE ThreadRaise(q, "eSCL scan failed: " \o o)
    /\ UNCHANGED <<envVars, reader, available_scanners, scanner_detection_status,
                   last_scan_detection, detect, scan_status, req, http>>

\* scan_from_escl 49-53: one turn of the loop that streams the body into the
\* file; at the end of the body the file is closed and its path returned.  A
\* stream that breaks leaves the file as far as it was written.
Escl_Write(q) ==
    /\ Running
    /\ job[q].kind = "network"
    /\ job[q].pc = "escl_stream"
    /\ \E o \in ChunkOutcomes :
          /\ files' = FileAfter(job[q].filepath,
                                CASE o = "chunk" -> "partial"
                                  [] o = "end" -> "complete"
                                  [] o = "stream_error" -> "untouched")
          /\ job' = CASE o = "chunk" -> job
                      [] o = "end" -> [job EXCEPT ![q].pc = "mark_completed",
                                                  ![q].result = Returned(job[q].filepath)]
                      [] o = "stream_error" ->
                            ThreadRaise(q, "eSCL scan failed: " \o o)
    /\ UNCHANGED <<envVars, reader, available_scanners, scanner_detection_status,
                   last_scan_detection, detect, scan_status, req, http>>

\* perform_network_scan 553.
NetPerform_Completed(q) ==
    /\ job[q].kind = "network"
    /\ ThreadWrite(q, "mark_completed", "progress100",
                   [MyRecord(q) EXCEPT !.status = "completed"])

\* perform_network_scan 554.
NetPerform_Progress100(q) ==
    /\ job[q].kind = "network"
    /\ ThreadWrite(q, "progress100", "filename", [MyRecord(q) EXCEPT !.progress = 100])

\* perform_network_scan 555.
NetPerform_Filename(q) == job[q].kind = "network" /\ FilenameStep(q)

\* perform_network_scan 559.
NetPerform_ErrStatus(q) ==
    /\ job[q].kind = "network"
    /\ ThreadWrite(q, "err_status", "err_detail", MarkError(MyRecord(q)))

\* perform_network_scan 560.
NetPerform_ErrDetail(q) ==
    /\ job[q].kind = "network"
    /\ ThreadWrite(q, "err_detail", "finished", [MyRecord(q) EXCEPT !.error = job[q].exc])

\* A step of the scan thread of submission q.
ThreadStep(q) ==
    \/ Perform_Start(q)
    \/ Perform_Announce(q)
    \/ Perform_Progress50(q)
    \/ Perform_Scan(q)
    \/ Perform_Completed(q)
    \/ Perform_Progress100(q)
    \/ Perform_Filename(q)
    \/ Perform_ErrStatus(q)
    \/ Perform_ErrDetail(q)
    \/ NetPerform_Start(q)
    \/ NetPerform_Progress50(q)
    \/ Escl_Post(q)
    \/ Escl_Get(q)
    \/ Escl_Open(q)
    \/ Escl_Write(q)
    \/ NetPerform_Completed(q)
    \/ NetPerform_Progress100(q)
    \/ NetPerform_Filename(q)
    \/ NetPerform_ErrStatus(q)
    \/ NetPerform_ErrDetail(q)

\* A step of a request handler that is past reading its request.
HandlerStep(q) ==
    \/ StartScan_Select(q)
    \/ StartScan_Record(q)
    \/ StartScan_Launch(q)

\* --------------------------------------------------------------- the system
\* The state once main.py is imported: line 12 imported (or failed to
\* compile) scanner_manager.py, line 40 built (or failed to build) the
\* manager, lines 43-48 set the globals, line 201 started the first
\* detection thread.  Where the import or the constructor raised there is no
\* process: the globals below stand for nothing and no step is possible.
Init ==
    /\ is_render \in BOOLEAN
    /\ \E os \in Platforms, initRaises \in BOOLEAN, stray \in StrayLines :
          /\ init_raised = (InitializesDriver(os, is_render, stray) /\ initRaises)
          /\ sm_backend = SelectBackend(os, is_render, initRaises, stray)
    /\ available_scanners = <<>>
    /\ scanner_detection_status = "initializing"
    /\ last_scan_detection = None
    /\ detect = [t \in Threads |-> IF t = 1 /\ Running THEN StartedThread ELSE IdleThread]
    /\ scan_status = <<>>
    /\ req = [q \in Slots |-> IdleReq]
    /\ job = [q \in Slots |-> IdleJob]
    /\ files = <<>>
    /\ http = [q \in Slots |-> <<>>]
    /\ reader = [r \in Readers |-> IdleReader]

Next ==
    \/ \E t \in Threads : DetectStep(t)
    \/ refresh_scanners
    \/ \E r \in Readers : get_scanners(r)
    \/ \E q \in Slots : StartScan_Validate(q)
    \/ \E q \in Slots : start_network_scan(q)
    \/ \E q \in Slots : HandlerStep(q)
    \/ \E q \in Slots : ThreadStep(q)

Spec == Init /\ [][Next]_vars

\* Threads that exist are scheduled again and again, handlers that began run
\* on, and the calls into drivers and devices return or raise.  Nothing
\* obliges a caller to submit, to refresh or to ask for the device list.
Fairness ==
    /\ \A t \in Threads : WF_vars(DetectStep(t))
    /\ \A r \in Readers : WF_vars(ReaderStep(r))
    /\ \A q \in Slots : WF_vars(HandlerStep(q))
    /\ \A q \in Slots : WF_vars(ThreadStep(q))

FairSpec == Spec /\ Fairness

ScanIds == {NewScanId(q) : q \in Slots}

Terminal(status) == status \in {"completed", "error"}

\* ------------------------------------------------------------------- claims

\* A detection pass that has its enumeration in hand and is rebuilding the
\* registry, and the list that pass will have built when it is through.
Rebuilding(t) == detect[t].pc \in {"reset", "loop"} /\ detect[t].iterable
PostRefresh(t) == Processed(detect[t].scanners, Len(detect[t].scanners))

\* C1: while one detection pass runs and nothing else writes the registry,
\* the list a get_scanners request is about to hand out, taken from the list
\* the registry names, is the complete list the pass found or the complete
\* list the pass builds, never an empty or partly filled one.
C1_RefreshAtomic ==
    \A t \in Threads, r \in Readers :
        (reader[r].pc = "jsonify" /\ reader[r].live /\ detect[t].alone) =>
            /\ detect[t].pc \in {"list", "retry"} => Content(r) = detect[t].pre
            /\ Rebuilding(t) => Content(r) \in {detect[t].pre, PostRefresh(t)}


\* Someone will still write the record `id`: the handler that created it has
\* not answered yet, or a scan thread that was handed the id has not returned.
\* Nothing else ever writes a job record.
Owned(id) ==
    \/ \E q \in Slots : req[q].pc = "recorded" /\ req[q].scan_id = id
    \/ \E q \in Slots : job[q].pc \notin {"none", "finished"} /\ job[q].scan_id = id

\* C2: every job record that is created reaches a terminal state: a record
\* that is still running always has a handler or a scan thread that will
\* write it, so that no record is left running with nobody to finish it.
C2_JobsTerminate ==
    \A id \in DOMAIN scan_status :
        Terminal(scan_status[id].status) \/ Owned(id)

\* C3: once a job record is terminal its state never changes again.
C3_StateMonotone ==
    [][\A id \in DOMAIN scan_status :
          Terminal(scan_status[id].status)
              => /\ id \in DOMAIN scan_status'
                 /\ scan_status'[id].status = scan_status[id].status]_vars

\* C3 witness: a completed job and a failed job whose threads have returned,
\* so each thread kept writing its record after the record became terminal.
C3_Witness ==
    \E p, q \in Slots :
        /\ job[p].pc = "finished" /\ scan_status[job[p].scan_id].status = "completed"
        /\ job[q].pc = "finished" /\ scan_status[job[q].scan_id].status = "error"

\* C4: a status query that sees a job completed sees its file name and
\* progress 100 in the same answer.
C4_CompletedHasResult ==
    \A id \in ScanIds :
        LET r == get_scan_status(id) IN
        IF r.success /\ r.scan_status.status = "completed"
        THEN r.scan_status.filename # None /\ r.scan_status.progress = 100
        ELSE TRUE

\* C5: the file name is set only on a completed job, the error only on a
\* failed one, and never both.
C5_ResultXorError ==
    \A id \in DOMAIN scan_status :
        LET rec == scan_status[id] IN
        /\ rec.filename # None => rec.status = "completed"
        /\ rec.error # None => rec.status = "error"
        /\ ~(rec.filename # None /\ rec.error # None)

\* C5 witness: one job carries a file name and another carries an error.
C5_Witness ==
    \E a, b \in DOMAIN scan_status :
        /\ scan_status[a].filename # None
        /\ scan_status[b].error # None

\* C6: a detection pass whose enumeration raised on both attempts ends with
\* detection status "error".
C6_EnumerationFailureIsError ==
    [][\A t \in Threads :
          (DetectStep(t) /\ detect[t].enum_failed /\ detect'[t].pc = "done")
              => scanner_detection_status' = "error"]_vars

\* A pass that failed: both enumeration attempts raised, or the pass is in
\* its exception handler.
FailedPass(t) ==
    detect[t].enum_failed \/ detect[t].pc \in {"except", "except_reset"}

\* C7: when a failed detection pass returns, and nothing else wrote the
\* registry meanwhile, the registry is as the pass found it.
C7_FailedRefreshKeepsList ==
    [][\A t \in Threads :
          (DetectStep(t) /\ FailedPass(t) /\ detect[t].alone /\ detect'[t].pc = "done")
              => available_scanners' = detect[t].pre]_vars

\* C8: construction of the manager always completes, and when the driver's
\* initialization raised the selector is network-only: list_scanners
\* returns the empty list.
C8_InitNeverFails ==
    /\ Running
    /\ init_raised =>
          /\ sm_backend = "escl"
          /\ ListScannersOutcomes(sm_backend)
                = {[raised |-> FALSE, iterable |-> TRUE, value |-> <<>>]}

\* How often `pat` occurs in `s`.
Occurrences(s, pat) ==
    Cardinality({i \in 1..Len(s) :
                    i + Len(pat) - 1 <= Len(s) /\ SubSeq(s, i, i + Len(pat) - 1) = pat})

\* C9: every job-submission POST goes to a URL that holds /eSCL exactly once,
\* directly followed by the final /ScanJobs.
C9_EndpointNormalized ==
    \A q \in Slots : \A i \in DOMAIN http[q] :
        http[q][i].method = "POST"
            => /\ Occurrences(http[q][i].url, ESCL) = 1
               /\ EndsWith(http[q][i].url, ESCL \o SCANJOBS)

\* The POST of thread q was answered with success but without Location.
NoLocation(q) ==
    \E i \in DOMAIN http[q] :
        http[q][i].method = "POST" /\ http[q][i].answer = "no_location"

\* C10: after a POST answered with success but without Location no GET is
\* issued, no file is written, no path is returned: the thread is in its
\* exception handler or has left it, the job is never completed, and once
\* the thread has returned the job is failed with its error set.
C10_MissingLocationFails ==
    \A q \in Slots :
        NoLocation(q) =>
            /\ \A i \in DOMAIN http[q] : http[q][i].method # "GET"
            /\ job[q].result = NoValue
            /\ job[q].filepath \notin DOMAIN files
            /\ job[q].pc \in {"err_status", "err_detail", "finished"}
            /\ scan_status[job[q].scan_id].status # "completed"
            /\ scan_status[job[q].scan_id].filename = None
            /\ job[q].pc = "finished" =>
                  /\ scan_status[job[q].scan_id].status = "error"
                  /\ scan_status[job[q].scan_id].error # None

\* C10 witness: a network job whose POST came back without Location has
\* ended failed, with the cause in its record.
C10_Witness ==
    \E q \in Slots :
        /\ NoLocation(q)
        /\ job[q].pc = "finished"
        /\ scan_status[job[q].scan_id].status = "error"
        /\ scan_status[job[q].scan_id].error = "eSCL scan failed: no_location"

\* The acquisition of job q failed: its thread is in the exception handler,
\* or has returned from it.
AcquisitionFailed(q) ==
    \/ job[q].pc \in {"err_status", "err_detail"}
    \/ job[q].pc = "finished" /\ scan_status[job[q].scan_id].status = "error"

\* C11: after an acquisition failed, at whatever step, no file exists at the
\* job's destination path.
C11_NoFileAfterFailure ==
    \A q \in Slots : AcquisitionFailed(q) => job[q].filepath \notin DOMAIN files

\* C12: a local submission is accepted only with an index inside the registry
\* as it stands at the validation; one that is refused as an invalid index
\* has no job record and no scan thread, then and ever after.
C12_InvalidIndexRejected ==
    [][\A q \in Slots :
          /\ (req[q].pc = "idle" /\ req'[q].pc = "validated")
                => req'[q].scanner_index \in 0..(Len(available_scanners) - 1)
          /\ req'[q].pc = "resp400_invalid"
                => /\ NewScanId(q) \notin DOMAIN scan_status'
                   /\ job'[q].pc = "none"]_vars

\* C12 witness: with a device registered, one submission was accepted and ran
\* and a later one was refused for its index.
C12_Witness ==
    \E p, q \in Slots :
        /\ Len(available_scanners) > 0
        /\ req[p].pc = "resp200" /\ req[p].kind = "local"
        /\ req[q].pc = "resp400_invalid"

Milestones == {0, 25, 50, 100}

\* C14: the progress of a job is one of 0, 25, 50, 100, never decreases, and
\* is never 100 on a failed job.
C14_ProgressMonotone ==
    [][/\ \A id \in DOMAIN scan_status' :
             /\ scan_status'[id].progress \in Milestones
             /\ scan_status'[id].status = "error" => scan_status'[id].progress # 100
       /\ \A id \in DOMAIN scan_status \cap DOMAIN scan_status' :
             scan_status'[id].progress >= scan_status[id].progress]_vars

\* C14 witness: a job failed in the middle of its work, at progress 50, and
\* another one went all the way to 100.
C14_Witness ==
    \E a, b \in DOMAIN scan_status :
        /\ scan_status[a].status = "error" /\ scan_status[a].progress = 50
        /\ scan_status[b].status = "completed" /\ scan_status[b].progress = 100

\* The id was handed to a caller by a submission, and a submission that
\* holds the id has yet to answer.
ReturnedId(id) == \E q \in Slots : req[q].pc = "resp200" /\ req[q].scan_id = id
PendingId(id) == \E q \in Slots : req[q].pc = "recorded" /\ req[q].scan_id = id

\* C15: a status query succeeds for every id a submission returned, and
\* answers not-found for every id that no submission returned or is about
\* to return.
C15_StatusKnowsExactlySubmitted ==
    \A id \in ScanIds :
        /\ ReturnedId(id) => get_scan_status(id).code = 200
        /\ ~(ReturnedId(id) \/ PendingId(id)) => get_scan_status(id).code = 404

\* C16: a device's last_used is set only when a scan of that device has
\* completed.
C16_LastUsedOnlyAfterCompletion ==
    \A i \in DOMAIN available_scanners :
        available_scanners[i].last_used # None
            => \E q \in Slots :
                  /\ job[q].kind = "local"
                  /\ job[q].scanner_index = i - 1
                  /\ scan_status[job[q].scan_id].status = "completed"

\* C17: with RENDER=true the manager is built with the network-only selector
\* and stays so: list_scanners returns the empty list, so the registry stays
\* empty, scan is refused with an error whatever its arguments and touches no
\* file, and a network scan that is due to call the eSCL client can do so.
C17_RenderIsNetworkOnly ==
    is_render =>
        /\ sm_backend = "escl"
        /\ ListScannersOutcomes(sm_backend)
              = {[raised |-> FALSE, iterable |-> TRUE, value |-> <<>>]}
        /\ available_scanners = <<>>
        /\ \A idx \in IndexInputs, q \in Slots :
              \A o \in ScanOutcomes(sm_backend, idx, Filepath(NewScanId(q))) :
                  o.raised /\ o.file = "untouched"
        /\ \A q \in Slots :
              (job[q].kind = "network" /\ job[q].pc = "escl_post") => ENABLED Escl_Post(q)

\* The eSCL client of thread q failed at its last request.
LastRequestFailed(q) ==
    /\ Len(http[q]) >= 1
    /\ http[q][Len(http[q])].answer \notin {"created", "ok"}

\* C18: one scan_from_escl call issues the POST first; a GET follows only a
\* POST that was answered with a 2xx status and a Location, and goes to that
\* Location's /NextDocument; the destination is written only after the GET
\* was answered with a 2xx status; after a request failed (no answer or a
\* status outside 2xx) nothing follows: the call is raising or has raised,
\* and has returned no path.
C18_EsclOrderedFailFast ==
    \A q \in Slots :
        LET log == http[q] IN
        /\ Len(log) <= 2
        /\ Len(log) >= 1 => log[1].method = "POST"
        /\ Len(log) = 2 =>
              /\ log[2].method = "GET"
              /\ log[1].answer = "created"
              /\ log[1].location \in Locations
              /\ log[2].url = log[1].location \o NEXTDOCUMENT
        /\ (job[q].kind = "network" /\ job[q].filepath \in DOMAIN files)
              => Len(log) = 2 /\ log[2].answer = "ok"
        /\ (job[q].kind = "network" /\ job[q].result # NoValue)
              => /\ job[q].filepath \in DOMAIN files
                 /\ files[job[q].filepath] = "complete"
        /\ LastRequestFailed(q) =>
              /\ job[q].pc \in {"err_status", "err_detail", "finished"}
              /\ job[q].result = NoValue
              /\ job[q].filepath \notin DOMAIN files
              /\ scan_status[job[q].scan_id].status # "completed"

\* C19: the thread of a local job calls sm.scan exactly once before the job
\* is terminal: it enters its exception handler only out of that call, so a
\* job fails only because the call failed.
C19_AcquireExactlyOnce ==
    [][\A q \in Slots :
          (job[q].kind = "local" /\ job[q].pc # "err_status" /\ job'[q].pc = "err_status")
              => job[q].pc = "scan"]_vars

\* C20: the device a local job acquired from is the device that stood at the
\* submitted index when the submission was validated.
C20_AcquiresValidatedDevice ==
    \A q \in Slots :
        (job[q].kind = "local" /\ job[q].acquired # None)
            => job[q].acquired = req[q].device

\* C21: the registry always holds the result of one enumeration cycle: the
\* device ids are pairwise distinct and every entry's index is its position
\* in the list.
C21_SingleEnumerationCycle ==
    \A i, j \in DOMAIN available_scanners :
        /\ available_scanners[i].index = i - 1
        /\ i # j => available_scanners[i].device_id # available_scanners[j].device_id

\* The answers of a submission that hand no job id to the caller.
ErrorAnswers == {"resp400", "resp400_invalid", "resp500"}

\* The scan threads that were started for the record `id`.
ThreadsOf(id) == {q \in Slots : job[q].pc # "none" /\ job[q].scan_id = id}

\* C22: a submission that answered with an error has left no job record and
\* started no scan thread, and every job record whose submission has
\* answered has exactly one scan thread started for it.
C22_ErrorLeavesNoJob ==
    /\ \A q \in Slots :
          req[q].pc \in ErrorAnswers
              => NewScanId(q) \notin DOMAIN scan_status /\ job[q].pc = "none"
    /\ \A id \in DOMAIN scan_status :
          ~PendingId(id) => Cardinality(ThreadsOf(id)) = 1

\* ------------------------------------------------------ device classification
\* Lines 141-159 of auto_detect_scanners read the text of the device id.  The
\* specification above keeps device ids as atoms; the one below runs a
\* detection pass over ids that are text, entry by entry.

\* Tokens a device id is made of, at most this many in a row.
MaxTokens == 2

UpperLetters == <<"A", "B", "C", "D", "E", "F", "G", "H", "I", "J", "K", "L", "M",
                  "N", "O", "P", "Q", "R", "S", "T", "U", "V", "W", "X", "Y", "Z">>
LowerLetters == <<"a", "b", "c", "d", "e", "f", "g", "h", "i", "j", "k", "l", "m",
                  "n", "o", "p", "q", "r", "s", "t", "u", "v", "w", "x", "y", "z">>

\* str.lower(), character by character.
LowerChar(c) ==
    IF \E k \in DOMAIN UpperLetters : UpperLetters[k] = c
    THEN LowerLetters[CHOOSE k \in DOMAIN UpperLetters : UpperLetters[k] = c]
    ELSE c
RECURSIVE Lower(_)
Lower(s) ==
    IF Len(s) = 0 THEN s
    ELSE Lower(SubSeq(s, 1, Len(s) - 1)) \o LowerChar(SubSeq(s, Len(s), Len(s)))

\* term in s
Contains(s, term) ==
    \E k \in 1..(Len(s) - Len(term) + 1) : SubSeq(s, k, k + Len(term) - 1) = term

\* The marker lists of lines 145, 153 and 157.
NetworkTerms == {"airscan", "escl", "network", "net", "wifi", "ip="}
DirectTerms == {"hpaio", "usb", "direct", "local"}
BrandTerms == {"hp", "canon", "epson", "brother", "samsung"}

\* A classification that looks at the vendor first.
ClassifyVendorFirst(scanner_device_id) ==
    LET device_lower == Lower(scanner_device_id) IN
    IF \E brand \in BrandTerms : Contains(device_lower, brand) THEN "USB"
    ELSE IF \E term \in NetworkTerms : Contains(device_lower, term) THEN "Network"
    ELSE IF \E term \in DirectTerms : Contains(device_lower, term) THEN "USB/Direct"
    ELSE "Unknown"

\* Lines 135 and 142-159: scanner_info['type'].
Classify(scanner_device_id) ==
    LET device_lower == Lower(scanner_device_id) IN
    IF \E term \in NetworkTerms : Contains(device_lower, term) THEN "Network"
    ELSE IF \E term \in DirectTerms : Contains(device_lower, term) THEN "USB/Direct"
    ELSE IF \E brand \in BrandTerms : Contains(device_lower, brand) THEN "USB"
    ELSE "Unknown"

\* The dict of lines 127-159 for one enumerated entry, with its type.
ClassifiedInfo(i, scanner) ==
    [index |-> i, name |-> DisplayName(ScannerName(scanner)),
     device_id |-> ScannerDeviceId(scanner), last_used |-> None,
     type |-> Classify(ScannerDeviceId(scanner))]

\* Device ids the driver may report: one to MaxTokens tokens in a row, the
\* tokens being the markers, some of them in other letter cases, and a
\* token that is no marker.
IdTokens ==
    NetworkTerms \cup DirectTerms \cup BrandTerms \cup {"ESCL", "Usb", "HP", "x:"}
RECURSIVE IdsOf(_)
IdsOf(n) == IF n = 0 THEN {""} ELSE {a \o t : a \in IdsOf(n - 1), t \in IdTokens}
DeviceIds == UNION {IdsOf(n) : n \in 1..MaxTokens}

\* main.py 12, 40-48 and 201 on a Linux machine with a working SANE driver
\* and RENDER unset.
ClassifyInit ==
    /\ is_render = FALSE
    /\ init_raised = FALSE
    /\ \E stray \in StrayLines : sm_backend = SelectBackend("linux", FALSE, FALSE, stray)
    /\ available_scanners = <<>>
    /\ scanner_detection_status = "initializing"
    /\ last_scan_detection = None
    /\ detect = [t \in Threads |-> IF t = 1 /\ Running THEN StartedThread ELSE IdleThread]
    /\ scan_status = <<>>
    /\ req = [q \in Slots |-> IdleReq]
    /\ job = [q \in Slots |-> IdleJob]
    /\ files = <<>>
    /\ http = [q \in Slots |-> <<>>]
    /\ reader = [r \in Readers |-> IdleReader]

\* Lines 65-66: the driver reports one device, whose id is text, as a string
\* or as the first item of a tuple.
Classify_List(t) ==
    /\ Running
    /\ detect[t].pc = "list"
    /\ \E id \in DeviceIds :
       \E scanner \in {StrEntry(id), TupleEntry(<<id, "", "", "">>)} :
          detect' = [detect EXCEPT ![t].pc = "reset", ![t].scanners = <<scanner>>]
    /\ UNCHANGED <<envVars, reader, available_scanners, scanner_detection_status,
                   last_scan_detection, scan_status, req, job, files, http>>

\* One iteration of the loop 86-166, classification included.
Classify_Append(t) ==
    /\ Running
    /\ detect[t].pc = "loop"
    /\ detect[t].i < Len(detect[t].scanners)
    /\ available_scanners' =
          Append(available_scanners,
                 ClassifiedInfo(detect[t].i, detect[t].scanners[detect[t].i + 1]))
    /\ detect' = [detect EXCEPT ![t].i = @ + 1]
    /\ UNCHANGED <<envVars, reader, scanner_detection_status, last_scan_detection,
                   scan_status, req, job, files, http>>

ClassifyNext ==
    \E t \in Threads :
        \/ Detect_Begin(t)
        \/ Classify_List(t)
        \/ Detect_Reset(t)
        \/ Classify_Append(t)
        \/ Detect_Completed(t)
        \/ Detect_Stamp(t)

ClassifySpec == ClassifyInit /\ [][ClassifyNext]_vars

\* Two characters are the same letter, whatever their case.
SameLetter(c, d) ==
    c = d \/ \E k \in DOMAIN UpperLetters : {c, d} = {UpperLetters[k], LowerLetters[k]}

\* The id holds one of the markers, compared without regard to case.
HasMarker(id, terms) ==
    \E term \in terms, k \in 1..Len(id) :
        /\ k + Len(term) - 1 <= Len(id)
        /\ \A m \in 1..Len(term) :
              SameLetter(SubSeq(id, k + m - 1, k + m - 1), SubSeq(term, m, m))

\* C23: an entry whose id holds a network marker is of kind Network whatever
\* else the id holds; otherwise one with a direct-connection marker is
\* USB/Direct; otherwise one with a vendor token is USB; otherwise Unknown.
C23_ClassificationPriority ==
    \A i \in DOMAIN available_scanners :
        LET e == available_scanners[i]
            net == HasMarker(e.device_id, NetworkTerms)
            direct == HasMarker(e.device_id, DirectTerms)
            vendor == HasMarker(e.device_id, BrandTerms)
        IN  /\ net => e.type = "Network"
            /\ (~net /\ direct) => e.type = "USB/Direct"
            /\ (~net /\ ~direct /\ vendor) => e.type = "USB"
            /\ (~net /\ ~direct /\ ~vendor) => e.type = "Unknown"

\* C23 witness: a completed pass registered a device whose id holds a
\* network marker, a direct-connection marker and a vendor token at once,
\* one of them in capitals.
C23_Witness ==
    /\ scanner_detection_status = "completed"
    /\ \E i \in DOMAIN available_scanners :
          LET id == available_scanners[i].device_id IN
          /\ HasMarker(id, NetworkTerms)
          /\ HasMarker(id, DirectTerms)
          /\ HasMarker(id, BrandTerms)
          /\ id # Lower(id)
          /\ available_scanners[i].type = "Network"

====
